---- MODULE Spec2Model ----
(***************************************************************************)
(* A model of topological_codes/circuits/xxzz.py: the rotated surface code *)
(* lattice (_XXZZLattice), its two plaquette protocols (_XXXX, _ZZZZ), the *)
(* logical qubit built on it (XXZZQubit) and the readout decoder.          *)
(*                                                                         *)
(* Conventions.                                                            *)
(*  - Python None is the empty tuple None; a present value v of an         *)
(*    optional field is the 1-tuple <<v>> (data indices in the geometry).  *)
(*  - A Qubit object is the pair <<register key, index>>.                  *)
(*  - A Python str is a sequence of one-character strings.                 *)
(*  - A Python int that holds a bit string (unbounded in Python) is the    *)
(*    set of the positions of its 1 bits.                                  *)
(*  - A float coordinate x is held as the integer 2*x.                     *)
(*  - circ is the ordered log of what was put on the QuantumCircuit:       *)
(*    registers added and instructions appended.                           *)
(***************************************************************************)
EXTENDS Integers, Sequences, FiniteSets, TLC

VARIABLES params, geometry, circ, calls, op, raised, arg, ret

vars == <<params, geometry, circ, calls, op, raised, arg, ret>>

\* ------------------------------------------------------------------ bounds

\* distances are d = 2k+1 for k in 1..MaxK
MaxK == 2

\* operations called on one lattice after its construction
MaxCalls == 2

Distances == {2 * k + 1 : k \in 1..MaxK}

\* ------------------------------------------------------------------ values

None == <<>>

Some(v) == <<v>>

\* Python truth value of an optional Qubit: a Qubit object defines neither
\* __bool__ nor __len__, so only None is false.
Truthy(q) == q # None

name == <<"t", "q", "u", "b", "i", "t">>

RECURSIVE str(_)
str(n) ==
    LET digit(k) == <<"0", "1", "2", "3", "4", "5", "6", "7", "8", "9">>[k + 1]
    IN  IF n < 0 THEN <<"-">> \o str(0 - n)
        ELSE IF n < 10 THEN <<digit(n)>>
        ELSE str(n \div 10) \o <<digit(n % 10)>>

\* ------------------------------------------------------------------ __init__

\* The params dictionary as _XXZZLattice.__init__ leaves it.
init_params(dd) ==
    [d                   |-> dd,
     T                   |-> -1,
     num_readout         |-> -1,
     num_lattice_readout |-> -1,
     num_data            |-> dd * dd,
     num_syn             |-> (dd * dd - 1) \div 2]

\* The quantum registers of the lattice, in the order of the qregisters dict.
qregisters(p) ==
    <<[key |-> "data",    size |-> p.num_data, name |-> name \o <<"_", "d", "a", "t", "a">>],
      [key |-> "mz",      size |-> p.num_syn,  name |-> name \o <<"_", "m", "z">>],
      [key |-> "mx",      size |-> p.num_syn,  name |-> name \o <<"_", "m", "x">>],
      [key |-> "ancilla", size |-> 1,          name |-> name \o <<"_", "a", "n", "c", "i", "l", "l", "a">>]>>

\* ------------------------------------------------------------------ _geometry

\* mx_record with the last-row test one row early
mx_record_last_row_early(p, syn) ==
    LET dd         == p.d
        per_row_x  == (dd - 1) \div 2
        row        == syn \div per_row_x
        offset     == syn % per_row_x
        start      == (row - 1) * dd
        row_parity == row % 2
    IN  IF row = 0
        THEN <<syn, None, None, Some(syn * 2), Some(syn * 2 + 1)>>
        ELSE IF row = dd - 1
        THEN <<syn, Some(syn * 2 + 1), Some(syn * 2 + 2), None, None>>
        ELSE <<syn,
               Some(start + (offset * 2) + row_parity),
               Some(start + (offset * 2) + row_parity + 1),
               Some(start + dd + (offset * 2) + row_parity),
               Some(start + dd + (offset * 2) + row_parity + 1)>>

mx_record(p, syn) ==
    LET dd         == p.d
        per_row_x  == (dd - 1) \div 2
        row        == syn \div per_row_x
        offset     == syn % per_row_x
        start      == (row - 1) * dd
        row_parity == row % 2
    IN  IF row = 0
        THEN <<syn, None, None, Some(syn * 2), Some(syn * 2 + 1)>>
        ELSE IF row = dd
        THEN <<syn, Some(syn * 2 + 1), Some(syn * 2 + 2), None, None>>
        ELSE <<syn,
               Some(start + (offset * 2) + row_parity),
               Some(start + (offset * 2) + row_parity + 1),
               Some(start + dd + (offset * 2) + row_parity),
               Some(start + dd + (offset * 2) + row_parity + 1)>>

\* mz_record that clears only the top neighbour of an edge column
mz_record_half_cleared(p, syn) ==
    LET dd         == p.d
        per_row_z  == (dd + 1) \div 2
        row        == syn \div per_row_z
        offset     == syn % per_row_z
        start      == row * dd
        row_parity == row % 2
        top_l      == Some(start + (offset * 2) - row_parity)
        top_r      == Some(start + (offset * 2) - row_parity + 1)
        bot_l      == Some(start + dd + (offset * 2) - row_parity)
        bot_r      == Some(start + dd + (offset * 2) - row_parity + 1)
    IN  IF row_parity = 0 /\ offset = per_row_z - 1
        THEN <<syn, top_l, None, bot_l, bot_r>>
        ELSE IF row_parity = 1 /\ offset = 0
        THEN <<syn, None, top_r, bot_l, bot_r>>
        ELSE <<syn, top_l, top_r, bot_l, bot_r>>

mz_record(p, syn) ==
    LET dd         == p.d
        per_row_z  == (dd + 1) \div 2
        row        == syn \div per_row_z
        offset     == syn % per_row_z
        start      == row * dd
        row_parity == row % 2
        top_l      == Some(start + (offset * 2) - row_parity)
        top_r      == Some(start + (offset * 2) - row_parity + 1)
        bot_l      == Some(start + dd + (offset * 2) - row_parity)
        bot_r      == Some(start + dd + (offset * 2) - row_parity + 1)
    IN  IF row_parity = 0 /\ offset = per_row_z - 1
        THEN <<syn, top_l, None, bot_l, None>>
        ELSE IF row_parity = 1 /\ offset = 0
        THEN <<syn, None, top_r, None, bot_r>>
        ELSE <<syn, top_l, top_r, bot_l, bot_r>>

\* geometry = {"mx": [...], "mz": [...]}; list position k+1 holds the record
\* appended for syn = k.
_geometry(p) ==
    [mx |-> [k \in 1..p.num_syn |-> mx_record(p, k - 1)],
     mz |-> [k \in 1..p.num_syn |-> mz_record(p, k - 1)]]

\* ------------------------------------------------------------------ stabilizers

Qubit(reg, idx) == <<reg, idx>>

\* One plaquette [syn qubit, top_l, top_r, bot_l, bot_r] per geometry record,
\* the "mx" family first (the order of the geometry dict), with its class.
gen_qubit_indices_and_stabilizers(geo) ==
    LET plaquette(key, idx_list) ==
            <<Qubit(key, idx_list[1])>> \o
            [j \in 1..4 |-> IF idx_list[j + 1] # None
                            THEN Qubit("data", idx_list[j + 1][1])
                            ELSE None]
    IN  [qubit_indices |->
             [k \in 1..Len(geo.mx) |-> plaquette("mx", geo.mx[k])] \o
             [k \in 1..Len(geo.mz) |-> plaquette("mz", geo.mz[k])],
         stabilizers |->
             [k \in 1..Len(geo.mx) |-> "_XXXX"] \o
             [k \in 1..Len(geo.mz) |-> "_ZZZZ"]]

h(q) == <<"h", q>>

cx(control, target) == <<"cx", control, target>>

\* _XXXX.entangle that visits the left neighbour of each pair first
XXXX_entangle_left_first(qubit_indices) ==
    LET syndrome == qubit_indices[1]
        top_l    == qubit_indices[2]
        top_r    == qubit_indices[3]
        bot_l    == qubit_indices[4]
        bot_r    == qubit_indices[5]
    IN  IF (Truthy(top_r) /\ ~Truthy(top_l)) \/ (Truthy(bot_r) /\ ~Truthy(bot_l))
        THEN [raised |-> "LatticeError", ops |-> <<>>]
        ELSE [raised |-> "none",
              ops |-> <<h(syndrome)>>
                      \o (IF Truthy(top_r)
                          THEN <<cx(syndrome, top_l), cx(syndrome, top_r)>>
                          ELSE <<>>)
                      \o (IF Truthy(bot_r)
                          THEN <<cx(syndrome, bot_l), cx(syndrome, bot_r)>>
                          ELSE <<>>)
                      \o <<h(syndrome)>>]

\* _XXXX.entangle on one plaquette: the instructions it appends and the
\* exception it ends with ("none" when it returns).
XXXX_entangle(qubit_indices) ==
    LET syndrome == qubit_indices[1]
        top_l    == qubit_indices[2]
        top_r    == qubit_indices[3]
        bot_l    == qubit_indices[4]
        bot_r    == qubit_indices[5]
    IN  IF (Truthy(top_r) /\ ~Truthy(top_l)) \/ (Truthy(bot_r) /\ ~Truthy(bot_l))
        THEN [raised |-> "LatticeError", ops |-> <<>>]
        ELSE [raised |-> "none",
              ops |-> <<h(syndrome)>>
                      \o (IF Truthy(top_r)
                          THEN <<cx(syndrome, top_r), cx(syndrome, top_l)>>
                          ELSE <<>>)
                      \o (IF Truthy(bot_r)
                          THEN <<cx(syndrome, bot_r), cx(syndrome, bot_l)>>
                          ELSE <<>>)
                      \o <<h(syndrome)>>]

\* _ZZZZ.entangle on one plaquette.
ZZZZ_entangle(qubit_indices) ==
    LET syndrome == qubit_indices[1]
        top_l    == qubit_indices[2]
        top_r    == qubit_indices[3]
        bot_l    == qubit_indices[4]
        bot_r    == qubit_indices[5]
    IN  IF (Truthy(top_r) /\ ~Truthy(bot_r)) \/ (Truthy(top_l) /\ ~Truthy(bot_l))
        THEN [raised |-> "LatticeError", ops |-> <<>>]
        ELSE [raised |-> "none",
              ops |-> (IF Truthy(top_r)
                       THEN <<cx(top_r, syndrome), cx(bot_r, syndrome)>>
                       ELSE <<>>)
                      \o (IF Truthy(top_l)
                          THEN <<cx(top_l, syndrome), cx(bot_l, syndrome)>>
                          ELSE <<>>)]

stabilizer_entangle(cls, qubit_indices) ==
    IF cls = "_XXXX" THEN XXXX_entangle(qubit_indices)
                     ELSE ZZZZ_entangle(qubit_indices)

\* _TopologicalLattice.entangle: every plaquette's protocol, in list order;
\* an exception of one protocol ends the walk.
RECURSIVE entangle_from(_, _, _)
entangle_from(qubit_indices, stabilizers, i) ==
    IF i > Len(stabilizers)
    THEN [raised |-> "none", ops |-> <<>>]
    ELSE LET r == stabilizer_entangle(stabilizers[i], qubit_indices[i])
         IN  IF r.raised # "none"
             THEN r
             ELSE LET rest == entangle_from(qubit_indices, stabilizers, i + 1)
                  IN  [raised |-> rest.raised, ops |-> r.ops \o rest.ops]

entangle(geo) ==
    LET g == gen_qubit_indices_and_stabilizers(geo)
    IN  entangle_from(g.qubit_indices, g.stabilizers, 1)

\* ------------------------------------------------------------------ circuit

add_register(reg_name, size) == <<"add_register", reg_name, size>>

barrier == <<"barrier">>

\* QuantumCircuit.measure(qreg, cbits): qubit i of the register into the
\* i-th classical bit given, here bit lo+i of the register creg.
measure(key, size, creg, lo) ==
    [i \in 1..size |-> <<"measure", Qubit(key, i - 1), <<creg, lo + i - 1>>>>]

\* A one-qubit instruction applied to a whole register: once per qubit, in order.
on_register(gate, key, size) == [i \in 1..size |-> <<gate, Qubit(key, i - 1)>>]

\* range(0, stop, step) as a list
range_step(stop, step) ==
    [i \in 1..((stop + step - 1) \div step) |-> (i - 1) * step]

\* ------------------------------------------------------------------ decoder

Ok(v) == [raised |-> "none", value |-> v]

Raise(e) == [raised |-> e, value |-> None]

Digits == <<"0", "1", "2", "3", "4", "5", "6", "7", "8", "9">>

IsDigit(c) == \E k \in 1..10 : Digits[k] = c

\* int(s) of a str of decimal digits of length at most one; any other
\* character, or the empty string, is a ValueError.
int(s) ==
    IF Len(s) = 1 /\ IsDigit(s[1])
    THEN Ok((CHOOSE k \in 1..10 : Digits[k] = s[1]) - 1)
    ELSE Raise("ValueError")

\* int(x, base=2) of a str over the digits: the set of the positions of the
\* 1 bits of the number, position 0 being the last character.
int_base2(x) ==
    IF x = <<>> \/ \E i \in 1..Len(x) : x[i] \notin {"0", "1"}
    THEN Raise("ValueError")
    ELSE Ok({Len(x) - i : i \in {j \in 1..Len(x) : x[j] = "1"}})

\* a | b in the place of a ^ b
xor_as_or(a, b) == a \cup b

\* a ^ b, a & b, a >> n and a << n on such numbers
xor(a, b) == (a \ b) \cup (b \ a)

and(a, b) == a \cap b

shr(a, n) == {i - n : i \in {j \in a : j >= n}}

shl(a, n) == {i + n : i \in a}

\* readout_string.split(" ")
RECURSIVE split(_)
split(s) ==
    IF \A i \in 1..Len(s) : s[i] # " "
    THEN <<s>>
    ELSE LET k == CHOOSE i \in 1..Len(s) :
                      s[i] = " " /\ \A j \in 1..(i - 1) : s[j] # " "
         IN  <<SubSeq(s, 1, k - 1)>> \o split(SubSeq(s, k + 1, Len(s)))

RECURSIVE sum(_)
sum(xs) == IF xs = <<>> THEN 0 ELSE Head(xs) + sum(Tail(xs))

reversed(xs) == [i \in 1..Len(xs) |-> xs[Len(xs) - i + 1]]

\* [int(q) for q in final_readout_string][::-1]
readout_values_of(final_readout_string) ==
    IF \E i \in 1..Len(final_readout_string) : ~IsDigit(final_readout_string[i])
    THEN Raise("ValueError")
    ELSE Ok(reversed([i \in 1..Len(final_readout_string) |->
                         int(<<final_readout_string[i]>>).value]))

\* the loop over one family's records, each value put behind the string
RECURSIVE stabilizer_string_appending(_, _, _, _)
stabilizer_string_appending(idx_lists, readout_values, i, acc) ==
    IF i > Len(idx_lists)
    THEN Ok(acc)
    ELSE LET idx_list == idx_lists[i]
         IN  IF \E j \in 2..5 : idx_list[j] # None
                                /\ idx_list[j][1] >= Len(readout_values)
             THEN Raise("IndexError")
             ELSE LET stabilizer_val ==
                          sum([j \in 1..4 |->
                                  IF idx_list[j + 1] # None
                                  THEN readout_values[idx_list[j + 1][1] + 1]
                                  ELSE 0]) % 2
                  IN  stabilizer_string_appending(idx_lists, readout_values, i + 1,
                                                  acc \o str(stabilizer_val))

\* The loop over one family's records: each value is put in front of the
\* string built so far.  A data index past the end of readout_values is an
\* IndexError.
RECURSIVE stabilizer_string(_, _, _, _)
stabilizer_string(idx_lists, readout_values, i, acc) ==
    IF i > Len(idx_lists)
    THEN Ok(acc)
    ELSE LET idx_list == idx_lists[i]
         IN  IF \E j \in 2..5 : idx_list[j] # None
                                /\ idx_list[j][1] >= Len(readout_values)
             THEN Raise("IndexError")
             ELSE LET stabilizer_val ==
                          sum([j \in 1..4 |->
                                  IF idx_list[j + 1] # None
                                  THEN readout_values[idx_list[j + 1][1] + 1]
                                  ELSE 0]) % 2
                  IN  stabilizer_string(idx_lists, readout_values, i + 1,
                                        str(stabilizer_val) \o acc)

\* The loop that adds up the logical operator's data positions.
RECURSIVE logical_sum(_, _, _, _)
logical_sum(positions, readout_values, i, logical_readout) ==
    IF i > Len(positions)
    THEN Ok(logical_readout)
    ELSE IF positions[i] >= Len(readout_values)
    THEN Raise("IndexError")
    ELSE logical_sum(positions, readout_values, i + 1,
                     (logical_readout + readout_values[positions[i] + 1]) % 2)

\* s[n:] and s[:n]
slice_from(s, n) == SubSeq(s, n + 1, Len(s))

slice_to(s, n) == SubSeq(s, 1, IF n < Len(s) THEN n ELSE Len(s))

extract_final_stabilizer_and_logical_readout_x(geo, p, final_readout_string, previous_syndrome_string) ==
    LET rv == readout_values_of(final_readout_string)
    IN  IF rv.raised # "none" THEN rv
        ELSE LET x_stabilizer == stabilizer_string(geo.mx, rv.value, 1, <<>>)
             IN  IF x_stabilizer.raised # "none" THEN x_stabilizer
                 ELSE LET logical_readout ==
                              logical_sum(range_step(p.num_data, p.d), rv.value, 1, 0)
                      IN  IF logical_readout.raised # "none" THEN logical_readout
                          ELSE Ok([logical_readout |-> logical_readout.value,
                                   stabilizer_str  |->
                                       x_stabilizer.value
                                       \o slice_from(previous_syndrome_string, p.num_syn)])

extract_final_stabilizer_and_logical_readout_z(geo, p, final_readout_string, previous_syndrome_string) ==
    LET rv == readout_values_of(final_readout_string)
    IN  IF rv.raised # "none" THEN rv
        ELSE LET z_stabilizer == stabilizer_string(geo.mz, rv.value, 1, <<>>)
             IN  IF z_stabilizer.raised # "none" THEN z_stabilizer
                 ELSE LET logical_readout ==
                              logical_sum([i \in 1..p.d |-> i - 1], rv.value, 1, 0)
                      IN  IF logical_readout.raised # "none" THEN logical_readout
                          ELSE Ok([logical_readout |-> logical_readout.value,
                                   stabilizer_str  |->
                                       slice_to(previous_syndrome_string, p.num_syn)
                                       \o z_stabilizer.value])

\* The wrapper: any other readout_type falls off its end and returns None.
extract_final_stabilizer_and_logical_readout(geo, p, final_readout_string, previous_syndrome_string, readout_type) ==
    IF readout_type = <<"X">>
    THEN extract_final_stabilizer_and_logical_readout_x(
             geo, p, final_readout_string, previous_syndrome_string)
    ELSE IF readout_type = <<"Z">>
    THEN extract_final_stabilizer_and_logical_readout_z(
             geo, p, final_readout_string, previous_syndrome_string)
    ELSE Ok(None)

\* the hits of one family with the Z column taken from loc // 2 alone
RECURSIVE hits_z_column_without_parity(_, _, _, _, _)
hits_z_column_without_parity(syndromes, n, T, loc, kind) ==
    IF T >= Len(syndromes) THEN <<>>
    ELSE IF loc >= n THEN hits_z_column_without_parity(syndromes, n, T + 1, 0, kind)
    ELSE (IF and(syndromes[T + 1], shl({0}, loc)) # {}
          THEN IF kind = "X"
               THEN <<<<T, 2 * loc - 1, 1 + 2 * (loc % 2)>>>>
               ELSE <<<<T, 1 + 2 * (loc \div 2), 1 - 2 * (loc \div 2)>>>>
          ELSE <<>>)
         \o hits_z_column_without_parity(syndromes, n, T, loc + 1, kind)

\* The hits of one family: for T, syndrome in enumerate(syndromes), for loc in
\* range(num_syn), one coordinate per set bit, in that order.  coordinate(T, loc)
\* is <<T, 2 * row, 2 * col>>.
RECURSIVE hits(_, _, _, _, _)
hits(syndromes, n, T, loc, kind) ==
    IF T >= Len(syndromes) THEN <<>>
    ELSE IF loc >= n THEN hits(syndromes, n, T + 1, 0, kind)
    ELSE (IF and(syndromes[T + 1], shl({0}, loc)) # {}
          THEN IF kind = "X"
               THEN <<<<T, 2 * loc - 1, 1 + 2 * (loc % 2)>>>>
               ELSE <<<<T, 1 + 2 * (loc \div 2),
                        1 + 4 * (loc % 2) - 2 * (loc \div 2)>>>>
          ELSE <<>>)
         \o hits(syndromes, n, T, loc + 1, kind)

\* parse_readout that forgets to put the rounds in chronological order
syndrome_hits_unreversed(p, logical_readout, chunks) ==
    LET rev == chunks
    IN  IF \E i \in 1..Len(rev) : int_base2(rev[i]).raised # "none"
        THEN Raise("ValueError")
        ELSE LET int_syndromes == [i \in 1..Len(rev) |-> int_base2(rev[i]).value]
                 xor_syndromes ==
                     [i \in 1..(IF Len(rev) > 0 THEN Len(rev) - 1 ELSE 0) |->
                         xor(int_syndromes[i], int_syndromes[i + 1])]
                 mask_Z == [i \in 1..p.num_syn |-> "1"]
                 mask_X == mask_Z \o [i \in 1..p.num_syn |-> "0"]
                 X_syndromes ==
                     [i \in 1..Len(xor_syndromes) |->
                         shr(and(xor_syndromes[i], int_base2(mask_X).value), p.num_syn)]
                 Z_syndromes ==
                     [i \in 1..Len(xor_syndromes) |->
                         and(xor_syndromes[i], int_base2(mask_Z).value)]
             IN  Ok([logical_readout |-> logical_readout,
                     X |-> hits(X_syndromes, p.num_syn, 0, 0, "X"),
                     Z |-> hits(Z_syndromes, p.num_syn, 0, 0, "Z")])

\* parse_readout from "int_syndromes = ..." on
syndrome_hits(p, logical_readout, chunks) ==
    LET rev == reversed(chunks)
    IN  IF \E i \in 1..Len(rev) : int_base2(rev[i]).raised # "none"
        THEN Raise("ValueError")
        ELSE LET int_syndromes == [i \in 1..Len(rev) |-> int_base2(rev[i]).value]
                 xor_syndromes ==
                     [i \in 1..(IF Len(rev) > 0 THEN Len(rev) - 1 ELSE 0) |->
                         xor(int_syndromes[i], int_syndromes[i + 1])]
                 mask_Z == [i \in 1..p.num_syn |-> "1"]
                 mask_X == mask_Z \o [i \in 1..p.num_syn |-> "0"]
                 X_syndromes ==
                     [i \in 1..Len(xor_syndromes) |->
                         shr(and(xor_syndromes[i], int_base2(mask_X).value), p.num_syn)]
                 Z_syndromes ==
                     [i \in 1..Len(xor_syndromes) |->
                         and(xor_syndromes[i], int_base2(mask_Z).value)]
             IN  Ok([logical_readout |-> logical_readout,
                     X |-> hits(X_syndromes, p.num_syn, 0, 0, "X"),
                     Z |-> hits(Z_syndromes, p.num_syn, 0, 0, "Z")])

\* _XXZZLattice.parse_readout (XXZZQubit.parse_readout forwards to it)
parse_readout(geo, p, readout_string, readout_type) ==
    LET chunks == split(readout_string)
    IN  IF Len(chunks[1]) > 1
        THEN IF readout_type = None THEN Raise("AssertionError")
             ELSE IF Len(chunks) < 2 THEN Raise("IndexError")
             ELSE LET e == extract_final_stabilizer_and_logical_readout(
                               geo, p, chunks[1], chunks[2], readout_type)
                  IN  IF e.raised # "none" THEN e
                      ELSE IF e.value = None THEN Raise("TypeError")
                      ELSE syndrome_hits(p, e.value.logical_readout,
                                         <<e.value.stabilizer_str>> \o Tail(chunks))
        ELSE LET logical_readout == int(chunks[1])
             IN  IF logical_readout.raised # "none" THEN logical_readout
                 ELSE syndrome_hits(p, logical_readout.value, Tail(chunks))

\* ------------------------------------------------------------------ the lattice

\* A lattice right after XXZZQubit(params = {"d": dd}): the four quantum
\* registers are on the circuit (the base class adds them), the geometry is
\* built, no round was run.
Constructed(dd) ==
    /\ params = init_params(dd)
    /\ geometry = _geometry(init_params(dd))
    /\ circ = [i \in 1..4 |-> add_register(qregisters(init_params(dd))[i].name,
                                           qregisters(init_params(dd))[i].size)]
    /\ calls = [stabilize |-> 0, readout |-> 0, lattice_readout |-> 0, other |-> 0]

Init ==
    /\ \E dd \in Distances : Constructed(dd)
    /\ op = "__init__"
    /\ raised = "none"
    /\ arg = None
    /\ ret = None

NumCalls == calls.stabilize + calls.readout + calls.lattice_readout + calls.other

\* A method that returns None: nothing is passed in, nothing comes back.
Procedure(method) ==
    /\ NumCalls < MaxCalls
    /\ op' = method
    /\ arg' = None
    /\ ret' = None

\* stabilize with the two families measured into each other's half of the slot
stabilize_halves_swapped ==
    /\ Procedure("stabilize")
    /\ LET p                 == [params EXCEPT !.T = @ + 1]
           syndrome_readouts == name \o <<"_", "c">> \o str(p.T)
           e                 == entangle(geometry)
       IN  /\ params' = p
           /\ raised' = e.raised
           /\ circ' = circ
                  \o <<add_register(syndrome_readouts, p.num_syn * 2)>>
                  \o e.ops
                  \o (IF e.raised # "none" THEN <<>>
                      ELSE measure("mz", p.num_syn, syndrome_readouts, p.num_syn)
                           \o measure("mx", p.num_syn, syndrome_readouts, 0)
                           \o on_register("reset", "mz", p.num_syn)
                           \o on_register("reset", "mx", p.num_syn)
                           \o <<barrier>>)
    /\ calls' = [calls EXCEPT !.stabilize = @ + 1]
    /\ UNCHANGED geometry

\* XXZZQubit.stabilize
stabilize ==
    /\ Procedure("stabilize")
    /\ LET p                 == [params EXCEPT !.T = @ + 1]
           syndrome_readouts == name \o <<"_", "c">> \o str(p.T)
           e                 == entangle(geometry)
       IN  /\ params' = p
           /\ raised' = e.raised
           /\ circ' = circ
                  \o <<add_register(syndrome_readouts, p.num_syn * 2)>>
                  \o e.ops
                  \o (IF e.raised # "none" THEN <<>>
                      ELSE measure("mz", p.num_syn, syndrome_readouts, 0)
                           \o measure("mx", p.num_syn, syndrome_readouts, p.num_syn)
                           \o on_register("reset", "mz", p.num_syn)
                           \o on_register("reset", "mx", p.num_syn)
                           \o <<barrier>>)
    /\ calls' = [calls EXCEPT !.stabilize = @ + 1]
    /\ UNCHANGED geometry

\* _XXZZLattice.readout_x (XXZZQubit.readout_x forwards to it)
readout_x ==
    /\ Procedure("readout_x")
    /\ LET p       == [params EXCEPT !.num_readout = @ + 1]
           readout == name \o <<"_", "r", "e", "a", "d", "o", "u", "t", "_">>
                           \o str(p.num_readout)
           column  == range_step(p.num_data, p.d)
       IN  /\ params' = p
           /\ circ' = circ
                  \o <<add_register(readout, 1)>>
                  \o on_register("reset", "ancilla", 1)
                  \o on_register("h", "ancilla", 1)
                  \o [i \in 1..Len(column) |->
                         cx(Qubit("ancilla", 0), Qubit("data", column[i]))]
                  \o on_register("h", "ancilla", 1)
                  \o measure("ancilla", 1, readout, 0)
                  \o <<barrier>>
    /\ calls' = [calls EXCEPT !.readout = @ + 1]
    /\ raised' = "none"
    /\ UNCHANGED geometry

\* readout_z that reuses the current readout number
readout_z_no_increment ==
    /\ Procedure("readout_z")
    /\ LET p       == params
           readout == name \o <<"_", "r", "e", "a", "d", "o", "u", "t", "_">>
                           \o str(p.num_readout)
       IN  /\ params' = p
           /\ circ' = circ
                  \o <<add_register(readout, 1)>>
                  \o on_register("reset", "ancilla", 1)
                  \o [i \in 1..p.d |->
                         cx(Qubit("data", i - 1), Qubit("ancilla", 0))]
                  \o measure("ancilla", 1, readout, 0)
                  \o <<barrier>>
    /\ calls' = [calls EXCEPT !.readout = @ + 1]
    /\ raised' = "none"
    /\ UNCHANGED geometry

\* _XXZZLattice.readout_z (XXZZQubit.readout_z forwards to it)
readout_z ==
    /\ Procedure("readout_z")
    /\ LET p       == [params EXCEPT !.num_readout = @ + 1]
           readout == name \o <<"_", "r", "e", "a", "d", "o", "u", "t", "_">>
                           \o str(p.num_readout)
       IN  /\ params' = p
           /\ circ' = circ
                  \o <<add_register(readout, 1)>>
                  \o on_register("reset", "ancilla", 1)
                  \o [i \in 1..p.d |->
                         cx(Qubit("data", i - 1), Qubit("ancilla", 0))]
                  \o measure("ancilla", 1, readout, 0)
                  \o <<barrier>>
    /\ calls' = [calls EXCEPT !.readout = @ + 1]
    /\ raised' = "none"
    /\ UNCHANGED geometry

data_readout_name(p) ==
    name \o <<"_", "d", "a", "t", "a", "_", "r", "e", "a", "d", "o", "u", "t", "_">>
         \o str(p.num_lattice_readout)

\* XXZZQubit.lattice_readout_z
lattice_readout_z ==
    /\ Procedure("lattice_readout_z")
    /\ LET p == [params EXCEPT !.num_lattice_readout = @ + 1]
       IN  /\ params' = p
           /\ circ' = circ
                  \o <<add_register(data_readout_name(p), p.num_data)>>
                  \o measure("data", p.num_data, data_readout_name(p), 0)
                  \o <<barrier>>
    /\ calls' = [calls EXCEPT !.lattice_readout = @ + 1]
    /\ raised' = "none"
    /\ UNCHANGED geometry

\* XXZZQubit.lattice_readout_x
lattice_readout_x ==
    /\ Procedure("lattice_readout_x")
    /\ LET p == [params EXCEPT !.num_lattice_readout = @ + 1]
       IN  /\ params' = p
           /\ circ' = circ
                  \o <<add_register(data_readout_name(p), p.num_data)>>
                  \o on_register("h", "data", p.num_data)
                  \o measure("data", p.num_data, data_readout_name(p), 0)
                  \o <<barrier>>
    /\ calls' = [calls EXCEPT !.lattice_readout = @ + 1]
    /\ raised' = "none"
    /\ UNCHANGED geometry

\* A method that only appends instructions.
Gates(method, ops) ==
    /\ Procedure(method)
    /\ circ' = circ \o ops \o <<barrier>>
    /\ calls' = [calls EXCEPT !.other = @ + 1]
    /\ raised' = "none"
    /\ UNCHANGED <<params, geometry>>

\* _XXZZLattice.logical_x (XXZZQubit.logical_x forwards to it)
logical_x ==
    LET column == range_step(params.num_data, params.d)
    IN  Gates("logical_x", [i \in 1..Len(column) |-> <<"x", Qubit("data", column[i])>>])

\* _XXZZLattice.logical_z (XXZZQubit.logical_z forwards to it)
logical_z ==
    Gates("logical_z", [i \in 1..params.d |-> <<"z", Qubit("data", i - 1)>>])

\* XXZZQubit.identity
identity ==
    Gates("identity",
          on_register("id", "data", params.num_data)
          \o on_register("id", "mz", params.num_syn)
          \o on_register("id", "mx", params.num_syn)
          \o on_register("id", "ancilla", 1))

\* XXZZQubit.identity_data
identity_data ==
    Gates("identity_data", on_register("id", "data", params.num_data))

\* XXZZQubit.logical_x_plus_reset
logical_x_plus_reset ==
    Gates("logical_x_plus_reset",
          on_register("reset", "data", params.num_data)
          \o on_register("h", "data", params.num_data))

\* XXZZQubit.logical_z_plus_reset
logical_z_plus_reset ==
    Gates("logical_z_plus_reset", on_register("reset", "data", params.num_data))

\* ------------------------------------------------------------------ inputs

zeros(n) == [i \in 1..n |-> "0"]

ones(n) == [i \in 1..n |-> "1"]

alternating(n) == [i \in 1..n |-> IF i % 2 = 1 THEN "0" ELSE "1"]

one_hot(n, j) == [i \in 1..n |-> IF i = j THEN "1" ELSE "0"]

one_cold(n, j) == [i \in 1..n |-> IF i = j THEN "0" ELSE "1"]

\* Bit strings of length n: all equal, or all equal but one position.
Marked(n) ==
    {zeros(n), ones(n)} \cup {one_hot(n, j) : j \in 1..n}
                        \cup {one_cold(n, j) : j \in 1..n}

\* bit strings no longer than this are all tried
MaxExhaustive == 9

\* The bit strings of length n that are tried: all of them when n is small,
\* the marked ones otherwise.
Strings(n) == IF n <= MaxExhaustive THEN [1..n -> {"0", "1"}] ELSE Marked(n)

RECURSIVE join(_)
join(tokens) ==
    IF Len(tokens) = 0 THEN <<>>
    ELSE IF Len(tokens) = 1 THEN tokens[1]
    ELSE tokens[1] \o <<" ">> \o join(Tail(tokens))

Call(readout_string, readout_type) ==
    [readout_string |-> readout_string, readout_type |-> readout_type]

\* The few transcripts decoded between the operations of one lattice.
SmallTranscripts(p) ==
    {Call(join(<<<<"0">>, zeros(2 * p.num_syn), zeros(2 * p.num_syn)>>), None),
     Call(join(<<<<"1">>, ones(2 * p.num_syn), zeros(2 * p.num_syn)>>), None),
     Call(join(<<ones(p.num_data), zeros(2 * p.num_syn)>>), <<"Z">>),
     Call(join(<<ones(p.num_data), zeros(2 * p.num_syn)>>), None)}

\* _XXZZLattice.parse_readout applied to one transcript
parse_call(input) ==
    LET r == parse_readout(geometry, params, input.readout_string, input.readout_type)
    IN  /\ op' = "parse_readout"
        /\ arg' = input
        /\ ret' = r.value
        /\ raised' = r.raised
        /\ calls' = [calls EXCEPT !.other = @ + 1]
        /\ UNCHANGED <<params, geometry, circ>>

ParseReadout ==
    /\ NumCalls < MaxCalls
    /\ \E input \in SmallTranscripts(params) : parse_call(input)

Next ==
    \/ stabilize
    \/ readout_x
    \/ readout_z
    \/ lattice_readout_x
    \/ lattice_readout_z
    \/ logical_x
    \/ logical_z
    \/ identity
    \/ identity_data
    \/ logical_x_plus_reset
    \/ logical_z_plus_reset
    \/ ParseReadout

Spec == Init /\ [][Next]_vars

\* ------------------------------------------------------------------ one plaquette

\* data qubits 0..MaxQubit may be a neighbour of the plaquette under test
MaxQubit == 2

OptionalData == {None} \cup {Qubit("data", i) : i \in 0..MaxQubit}

\* A protocol object built on an empty circuit over any 5-tuple.
InitStabilizer ==
    /\ \E cls \in {"_XXXX", "_ZZZZ"}, top_l \in OptionalData, top_r \in OptionalData,
          bot_l \in OptionalData, bot_r \in OptionalData :
          arg = [cls |-> cls,
                 qubit_indices |->
                     <<Qubit(IF cls = "_XXXX" THEN "mx" ELSE "mz", 0),
                       top_l, top_r, bot_l, bot_r>>]
    /\ params = None
    /\ geometry = None
    /\ calls = None
    /\ circ = <<>>
    /\ op = "__init__"
    /\ raised = "none"
    /\ ret = None

\* _XXXX.entangle / _ZZZZ.entangle on that object
EntangleStabilizer ==
    /\ op = "__init__"
    /\ LET e == stabilizer_entangle(arg.cls, arg.qubit_indices)
       IN  /\ circ' = circ \o e.ops
           /\ raised' = e.raised
    /\ op' = "entangle"
    /\ ret' = None
    /\ UNCHANGED <<params, geometry, calls, arg>>

NextStabilizer == EntangleStabilizer

SpecStabilizer == InitStabilizer /\ [][NextStabilizer]_vars

\* ------------------------------------------------------------------ final readout

InitExtract ==
    /\ \E dd \in Distances :
          /\ Constructed(dd)
          /\ \E r \in Strings(dd * dd), q \in Marked(dd * dd - 1),
                t \in {<<"X">>, <<"Z">>} :
                arg = [final_readout_string     |-> r,
                       previous_syndrome_string |-> q,
                       readout_type             |-> t]
    /\ op = "__init__"
    /\ raised = "none"
    /\ ret = None

\* _XXZZLattice.extract_final_stabilizer_and_logical_readout on those strings
Extract ==
    /\ op = "__init__"
    /\ LET r == extract_final_stabilizer_and_logical_readout(
                    geometry, params, arg.final_readout_string,
                    arg.previous_syndrome_string, arg.readout_type)
       IN  /\ ret' = r.value
           /\ raised' = r.raised
    /\ op' = "extract_final_stabilizer_and_logical_readout"
    /\ UNCHANGED <<params, geometry, circ, calls, arg>>

NextExtract == Extract

SpecExtract == InitExtract /\ [][NextExtract]_vars

\* ------------------------------------------------------------------ transcripts

\* round strings in one transcript
MaxRounds == 3

\* N round strings of 2 * num_syn bits, most recent first: one of them any of
\* Strings, the others all zeros or all ones alike.
RoundLists(p, N) ==
    IF N = 0 THEN {<<>>}
    ELSE {[i \in 1..N |-> IF i = k THEN m ELSE f] :
              k \in 1..N,
              m \in Strings(2 * p.num_syn),
              f \in {zeros(2 * p.num_syn), ones(2 * p.num_syn)}}

\* N round strings that are each all zeros or all ones
PlainLists(p, N) == [1..N -> {zeros(2 * p.num_syn), ones(2 * p.num_syn)}]

FullReadouts(p) ==
    {ones(p.num_data), alternating(p.num_data), one_hot(p.num_data, p.num_data)}

\* Transcripts in the wire format: a logical bit and any number of rounds, or a
\* full-lattice readout, its selector and at least one round.
GoodTranscripts(p) ==
    UNION {
        {Call(join(<<b>> \o rounds), None) :
             b \in {<<"0">>, <<"1">>}, rounds \in RoundLists(p, N)}
        \cup
        (IF N = 0 THEN {}
         ELSE {Call(join(<<r>> \o rounds), t) :
                   r \in FullReadouts(p), t \in {<<"X">>, <<"Z">>},
                   rounds \in PlainLists(p, N)})
        : N \in 0..MaxRounds}

\* The same with one token cut short, made longer, or given a character that
\* is no bit, and full-lattice records without a selector.
shorter(tokens, k) == [tokens EXCEPT ![k] = SubSeq(@, 1, Len(@) - 1)]

longer(tokens, k) == [tokens EXCEPT ![k] = @ \o <<"0">>]

spoilt(tokens, k) == [tokens EXCEPT ![k] = [@ EXCEPT ![1] = "2"]]

BadTranscripts(p) ==
    LET n      == 2 * p.num_syn
        rounds == {<<zeros(n)>>, <<ones(n), zeros(n)>>}
        bit    == {<<<<"1">>>> \o r : r \in rounds}
        full   == {<<ones(p.num_data)>> \o r : r \in rounds}
    IN  UNION {UNION {{Call(join(shorter(t, k)), None), Call(join(longer(t, k)), None),
                     Call(join(spoilt(t, k)), None)} : k \in 2..Len(t)} :
                   t \in bit}
        \cup {Call(join(spoilt(t, 1)), None) : t \in bit}
        \cup UNION {UNION {{Call(join(shorter(t, k)), y), Call(join(longer(t, k)), y),
                            Call(join(spoilt(t, k)), y)} : k \in 1..Len(t)} :
                        t \in full, y \in {<<"X">>, <<"Z">>}}
        \cup {Call(join(t), None) : t \in full}

InitParse ==
    /\ \E dd \in Distances :
          /\ Constructed(dd)
          /\ arg \in GoodTranscripts(init_params(dd)) \cup BadTranscripts(init_params(dd))
    /\ op = "__init__"
    /\ raised = "none"
    /\ ret = None

\* _XXZZLattice.parse_readout on that transcript
ParseTranscript ==
    /\ op = "__init__"
    /\ parse_call(arg)

NextParse == ParseTranscript

SpecParse == InitParse /\ [][NextParse]_vars

\* ------------------------------------------------------------------ shared circuit
\* Two XXZZQubit objects built on one QuantumCircuit. Here params, geometry
\* and calls are pairs, one component per qubit; arg holds the constructor
\* arguments of the two qubits; circ is the one shared circuit, where an
\* instruction of the qubit named nm is the pair <<nm, instruction>>.

\* the name prefixes tried: the default, a short one, and the short one
\* followed by a suffix the code appends
Names == {name, <<"q">>, <<"q", "_", "d", "a", "t", "a">>}

\* the names of the quantum registers of the lattice named nm
qregister_names(nm) ==
    <<nm \o <<"_", "d", "a", "t", "a">>,
      nm \o <<"_", "m", "z">>,
      nm \o <<"_", "m", "x">>,
      nm \o <<"_", "a", "n", "c", "i", "l", "l", "a">>>>

\* name=self.name + "_c{}".format(T)
syndrome_readouts_name(nm, p) == nm \o <<"_", "c">> \o str(p.T)

\* name=self.name + "_readout_" + str(num_readout)
readout_name(nm, p) ==
    nm \o <<"_", "r", "e", "a", "d", "o", "u", "t", "_">> \o str(p.num_readout)

\* name=self.name + "_data_readout_" + str(num_lattice_readout)
lattice_readout_name(nm, p) ==
    nm \o <<"_", "d", "a", "t", "a", "_", "r", "e", "a", "d", "o", "u", "t", "_">>
       \o str(p.num_lattice_readout)

\* the names of the registers on the circuit
register_names(c) == {c[i][2] : i \in {j \in 1..Len(c) : c[j][1] = "add_register"}}

of_lattice(nm, ops) == [i \in 1..Len(ops) |-> <<nm, ops[i]>>]

\* The two qubits are built one after the other on an empty circuit; each
\* construction puts the four quantum registers of its lattice on it.
InitShared ==
    /\ \E n1 \in Names, n2 \in Names, d1 \in Distances, d2 \in Distances :
          /\ n1 # n2
          /\ arg = <<[params |-> [d |-> d1], name |-> n1],
                     [params |-> [d |-> d2], name |-> n2]>>
          /\ params = <<init_params(d1), init_params(d2)>>
          /\ geometry = <<_geometry(init_params(d1)), _geometry(init_params(d2))>>
          /\ circ = [i \in 1..8 |->
                       IF i <= 4
                       THEN add_register(qregister_names(n1)[i],
                                         qregisters(init_params(d1))[i].size)
                       ELSE add_register(qregister_names(n2)[i - 4],
                                         qregisters(init_params(d2))[i - 4].size)]
    /\ calls = [k \in 1..2 |->
                   [stabilize |-> 0, readout |-> 0, lattice_readout |-> 0, other |-> 0]]
    /\ op = "__init__"
    /\ raised = "none"
    /\ ret = None

SharedNumCalls ==
    calls[1].stabilize + calls[1].readout + calls[1].lattice_readout
    + calls[2].stabilize + calls[2].readout + calls[2].lattice_readout

\* A method of qubit k that first increments a counter (p is params after
\* it), then allocates a classical register and hands it to
\* QuantumCircuit.add_register, then appends body.ops. add_register raises
\* CircuitError when a register of that name is already on the circuit: the
\* counter stays incremented and nothing is appended.
Allocating(k, method, counter, p, reg_name, size, body) ==
    /\ SharedNumCalls < MaxCalls
    /\ op' = <<k, method>>
    /\ ret' = None
    /\ params' = [params EXCEPT ![k] = p]
    /\ calls' = [calls EXCEPT ![k][counter] = @ + 1]
    /\ IF reg_name \in register_names(circ)
       THEN /\ raised' = "CircuitError"
            /\ circ' = circ
       ELSE /\ raised' = body.raised
            /\ circ' = circ \o <<add_register(reg_name, size)>>
                            \o of_lattice(arg[k].name, body.ops)
    /\ UNCHANGED <<geometry, arg>>

\* XXZZQubit.stabilize of qubit k
shared_stabilize(k) ==
    LET p                 == [params[k] EXCEPT !.T = @ + 1]
        syndrome_readouts == syndrome_readouts_name(arg[k].name, p)
        e                 == entangle(geometry[k])
    IN  Allocating(k, "stabilize", "stabilize", p, syndrome_readouts, p.num_syn * 2,
                   [raised |-> e.raised,
                    ops    |-> e.ops
                               \o (IF e.raised # "none" THEN <<>>
                                   ELSE measure("mz", p.num_syn, syndrome_readouts, 0)
                                        \o measure("mx", p.num_syn, syndrome_readouts, p.num_syn)
                                        \o on_register("reset", "mz", p.num_syn)
                                        \o on_register("reset", "mx", p.num_syn)
                                        \o <<barrier>>)])

\* XXZZQubit.readout_x of qubit k
shared_readout_x(k) ==
    LET p       == [params[k] EXCEPT !.num_readout = @ + 1]
        readout == readout_name(arg[k].name, p)
        column  == range_step(p.num_data, p.d)
    IN  Allocating(k, "readout_x", "readout", p, readout, 1,
                   [raised |-> "none",
                    ops    |-> on_register("reset", "ancilla", 1)
                               \o on_register("h", "ancilla", 1)
                               \o [i \in 1..Len(column) |->
                                      cx(Qubit("ancilla", 0), Qubit("data", column[i]))]
                               \o on_register("h", "ancilla", 1)
                               \o measure("ancilla", 1, readout, 0)
                               \o <<barrier>>])

\* XXZZQubit.readout_z of qubit k
shared_readout_z(k) ==
    LET p       == [params[k] EXCEPT !.num_readout = @ + 1]
        readout == readout_name(arg[k].name, p)
    IN  Allocating(k, "readout_z", "readout", p, readout, 1,
                   [raised |-> "none",
                    ops    |-> on_register("reset", "ancilla", 1)
                               \o [i \in 1..p.d |->
                                      cx(Qubit("data", i - 1), Qubit("ancilla", 0))]
                               \o measure("ancilla", 1, readout, 0)
                               \o <<barrier>>])

\* XXZZQubit.lattice_readout_z of qubit k
shared_lattice_readout_z(k) ==
    LET p       == [params[k] EXCEPT !.num_lattice_readout = @ + 1]
        readout == lattice_readout_name(arg[k].name, p)
    IN  Allocating(k, "lattice_readout_z", "lattice_readout", p, readout, p.num_data,
                   [raised |-> "none",
                    ops    |-> measure("data", p.num_data, readout, 0)
                               \o <<barrier>>])

\* XXZZQubit.lattice_readout_x of qubit k
shared_lattice_readout_x(k) ==
    LET p       == [params[k] EXCEPT !.num_lattice_readout = @ + 1]
        readout == lattice_readout_name(arg[k].name, p)
    IN  Allocating(k, "lattice_readout_x", "lattice_readout", p, readout, p.num_data,
                   [raised |-> "none",
                    ops    |-> on_register("h", "data", p.num_data)
                               \o measure("data", p.num_data, readout, 0)
                               \o <<barrier>>])

NextShared ==
    \/ \E k \in 1..2 : shared_stabilize(k)
    \/ \E k \in 1..2 : shared_readout_x(k)
    \/ \E k \in 1..2 : shared_readout_z(k)
    \/ \E k \in 1..2 : shared_lattice_readout_z(k)
    \/ \E k \in 1..2 : shared_lattice_readout_x(k)

SpecShared == InitShared /\ [][NextShared]_vars

\* ------------------------------------------------------------------ claims

Present(x) == x # None

Families == {"mx", "mz"}

\* C1: for every odd distance, _geometry() gives (d*d-1)/2 records per family,
\* the k-th record of a family carries syndrome index k, and every neighbour
\* that is present is a data index in 0..d*d-1.
C1_GeometryShape ==
    \A fam \in Families :
        /\ Len(geometry[fam]) = (params.d * params.d - 1) \div 2
        /\ \A k \in 1..Len(geometry[fam]) :
               /\ geometry[fam][k][1] = k - 1
               /\ \A j \in 2..5 :
                      Present(geometry[fam][k][j]) =>
                          /\ geometry[fam][k][j][1] >= 0
                          /\ geometry[fam][k][j][1] < params.d * params.d

\* a distance-5 lattice whose last X-type record reaches the last data index
C1_Witness ==
    /\ params.d = 5
    /\ Len(geometry.mx) = 12
    /\ geometry.mx[12][3] = Some(24)
    /\ geometry.mz[3][3] = None

\* C2: every X-type record has top_right present iff top_left present and
\* bottom_right present iff bottom_left present; every Z-type record has
\* top_right present iff bottom_right present and top_left present iff
\* bottom_left present; and a stabilization round on the generated geometry
\* never ends with the inconsistency error.
C2_TruncationSymmetry ==
    /\ \A k \in 1..Len(geometry.mx) :
           /\ Present(geometry.mx[k][3]) <=> Present(geometry.mx[k][2])
           /\ Present(geometry.mx[k][5]) <=> Present(geometry.mx[k][4])
    /\ \A k \in 1..Len(geometry.mz) :
           /\ Present(geometry.mz[k][3]) <=> Present(geometry.mz[k][5])
           /\ Present(geometry.mz[k][2]) <=> Present(geometry.mz[k][4])
    /\ raised # "LatticeError"

\* a round was built on a distance-5 lattice, which has truncated plaquettes
\* of both families
C2_Witness ==
    /\ op = "stabilize"
    /\ raised = "none"
    /\ params.d = 5
    /\ \E k \in 1..Len(geometry.mx) : ~Present(geometry.mx[k][2])
    /\ \E k \in 1..Len(geometry.mz) : ~Present(geometry.mz[k][2])
    /\ \E k \in 1..Len(geometry.mz) : ~Present(geometry.mz[k][3])

C4_Counters ==
    /\ params.T = calls.stabilize - 1
    /\ params.num_readout = calls.readout - 1
    /\ params.num_lattice_readout = calls.lattice_readout - 1

C4_Step ==
    /\ params'.T = params.T + (IF op' = "stabilize" THEN 1 ELSE 0)
    /\ params'.num_readout =
           params.num_readout + (IF op' \in {"readout_x", "readout_z"} THEN 1 ELSE 0)
    /\ params'.num_lattice_readout =
           params.num_lattice_readout
           + (IF op' \in {"lattice_readout_x", "lattice_readout_z"} THEN 1 ELSE 0)
    /\ params'.d = params.d
    /\ params'.num_data = params.num_data
    /\ params'.num_syn = params.num_syn
    /\ geometry' = geometry

\* C4: T, num_readout and num_lattice_readout are each one less than the number
\* of stabilize, readout_x/readout_z and lattice_readout_x/lattice_readout_z
\* calls made so far (-1 after construction); every operation adds exactly one
\* to its own counter and leaves the others alone; d, num_data, num_syn and the
\* geometry never change.
C4_RoundCounters == [](C4_Counters) /\ [][C4_Step]_vars

\* a lattice after one stabilization round and one logical readout
C4_Witness ==
    /\ calls.stabilize = 1
    /\ calls.readout = 1
    /\ params.T = 0
    /\ params.num_readout = 0
    /\ params.num_lattice_readout = -1

\* What one call of stabilize() put on the circuit, `before` and `after` being
\* the circuit around the call and p the params after it.
C5_Round(before, after, p) ==
    LET n       == p.num_syn
        seg     == SubSeq(after, Len(before) + 1, Len(after))
        slot    == name \o <<"_", "c">> \o str(p.T)
        Pos(x)  == {i \in 1..Len(seg) : seg[i] = x}
        Kind(c) == {i \in 1..Len(seg) : seg[i][1] \in c}
        Cx(q)   == {i \in 1..Len(seg) : seg[i][1] = "cx" /\ (seg[i][2] = q \/ seg[i][3] = q)}
        H(q)    == {i \in 1..Len(seg) : seg[i][1] = "h" /\ seg[i][2] = q}
        Others(q, i) == {seg[i][2], seg[i][3]} \ {q}
    IN  /\ Len(seg) >= 2
        /\ seg[1] = <<"add_register", slot, 2 * n>>
        /\ Kind({"add_register"}) = {1}
        /\ seg[Len(seg)] = <<"barrier">>
        /\ \A e \in Kind({"h", "cx"}), m \in Kind({"measure"}) : e < m
        /\ \A m \in Kind({"measure"}), r \in Kind({"reset"}) : m < r
        /\ \A r \in Kind({"reset"}) : r < Len(seg)
        /\ \A fam \in Families : \A k \in 1..n :
               LET q          == Qubit(fam, k - 1)
                   bit        == IF fam = "mz" THEN k - 1 ELSE n + k - 1
                   rec        == geometry[fam][k]
                   neighbours == {Qubit("data", rec[j][1]) :
                                      j \in {i \in 2..5 : Present(rec[i])}}
               IN  /\ Cardinality(Pos(<<"measure", q, <<slot, bit>>>>)) = 1
                   /\ {i \in Kind({"measure"}) : seg[i][2] = q}
                          = Pos(<<"measure", q, <<slot, bit>>>>)
                   /\ Cardinality(Pos(<<"reset", q>>)) = 1
                   /\ \A e \in Cx(q) \cup H(q), m \in Pos(<<"measure", q, <<slot, bit>>>>),
                         r \in Pos(<<"reset", q>>) : e < m /\ m < r
                   /\ Cardinality(Cx(q)) = Cardinality(neighbours)
                   /\ UNION {Others(q, i) : i \in Cx(q)} = neighbours
                   /\ Cardinality(H(q)) = (IF fam = "mx" THEN 2 ELSE 0)

C5_Step ==
    /\ Len(circ') >= Len(circ)
    /\ SubSeq(circ', 1, Len(circ)) = circ
    /\ (op' = "stabilize" /\ calls'.stabilize = calls.stabilize + 1)
           => C5_Round(circ, circ', params')

\* C5: every stabilize() appends, after everything already on the circuit and
\* in this order, a fresh classical slot of 2*num_syn bits named with the new
\* round number, the entangling operations of every plaquette of both families,
\* the measurement of Z-family unit i into bit i and of X-family unit i into
\* bit num_syn+i, the reset of each syndrome unit and a barrier; each syndrome
\* unit is measured after its entangling operations and before its reset, and
\* no operation ever removes or reorders what is on the circuit.
C5_StabilizeOrder == [][C5_Step]_vars

\* two rounds were appended one after the other
C5_Witness ==
    /\ op = "stabilize"
    /\ calls.stabilize = 2
    /\ raised = "none"
    /\ \E i \in 1..Len(circ) :
           circ[i] = <<"measure", Qubit("mx", 0),
                       <<name \o <<"_", "c", "1">>, params.num_syn>>>>

\* C3: a 5-tuple whose paired neighbours are not both present or both absent
\* (top_left/top_right or bottom_left/bottom_right for the X-type protocol,
\* top_right/bottom_right or top_left/bottom_left for the Z-type protocol)
\* makes entangle raise LatticeError, whichever of the two is the missing one.
C3_AnyMismatchRaises ==
    op = "entangle" =>
        LET top_l == arg.qubit_indices[2]
            top_r == arg.qubit_indices[3]
            bot_l == arg.qubit_indices[4]
            bot_r == arg.qubit_indices[5]
        IN  /\ (/\ arg.cls = "_XXXX"
                /\ \/ Present(top_l) # Present(top_r)
                   \/ Present(bot_l) # Present(bot_r))
               => raised = "LatticeError"
            /\ (/\ arg.cls = "_ZZZZ"
                /\ \/ Present(top_r) # Present(bot_r)
                   \/ Present(top_l) # Present(bot_l))
               => raised = "LatticeError"

C6_Valid ==
    LET top_l == arg.qubit_indices[2]
        top_r == arg.qubit_indices[3]
        bot_l == arg.qubit_indices[4]
        bot_r == arg.qubit_indices[5]
    IN  IF arg.cls = "_XXXX"
        THEN (Present(top_l) <=> Present(top_r)) /\ (Present(bot_l) <=> Present(bot_r))
        ELSE (Present(top_r) <=> Present(bot_r)) /\ (Present(top_l) <=> Present(bot_l))

\* C6: on a plaquette that meets its family's constraint the X-type protocol
\* emits h(syn), then cx(syn, top_right), cx(syn, top_left) if the top pair is
\* present, then cx(syn, bottom_right), cx(syn, bottom_left) if the bottom pair
\* is present, then h(syn); the Z-type protocol emits cx(top_right, syn),
\* cx(bottom_right, syn) if the right pair is present, then cx(top_left, syn),
\* cx(bottom_left, syn) if the left pair is present, and no h.  There are as
\* many cx as present neighbours and no operand is absent.
C6_ProtocolSequence ==
    (op = "entangle" /\ C6_Valid) =>
        LET syn   == arg.qubit_indices[1]
            top_l == arg.qubit_indices[2]
            top_r == arg.qubit_indices[3]
            bot_l == arg.qubit_indices[4]
            bot_r == arg.qubit_indices[5]
            top   == IF Present(top_r)
                     THEN <<<<"cx", syn, top_r>>, <<"cx", syn, top_l>>>> ELSE <<>>
            bot   == IF Present(bot_r)
                     THEN <<<<"cx", syn, bot_r>>, <<"cx", syn, bot_l>>>> ELSE <<>>
            right == IF Present(top_r)
                     THEN <<<<"cx", top_r, syn>>, <<"cx", bot_r, syn>>>> ELSE <<>>
            left  == IF Present(top_l)
                     THEN <<<<"cx", top_l, syn>>, <<"cx", bot_l, syn>>>> ELSE <<>>
        IN  /\ raised = "none"
            /\ circ = (IF arg.cls = "_XXXX"
                       THEN <<<<"h", syn>>>> \o top \o bot \o <<<<"h", syn>>>>
                       ELSE right \o left)
            /\ Cardinality({i \in 1..Len(circ) : circ[i][1] = "cx"})
                   = Cardinality({j \in 2..5 : Present(arg.qubit_indices[j])})
            /\ \A i \in 1..Len(circ) : \A j \in 2..Len(circ[i]) : Present(circ[i][j])

\* an X-type plaquette with four distinct neighbours went through the protocol
C6_Witness ==
    /\ op = "entangle"
    /\ arg.cls = "_XXXX"
    /\ \A j \in 2..5 : Present(arg.qubit_indices[j])
    /\ arg.qubit_indices[2] # arg.qubit_indices[3]
    /\ Len(circ) = 6

\* the readout value of data position j in the readout string r
C7_Value(r, j) == IF r[Len(r) - j] = "1" THEN 1 ELSE 0

\* the mod-2 sum of the readout values of a set of data positions, as a character
C7_Parity(r, positions) ==
    IF Cardinality({j \in positions : C7_Value(r, j) = 1}) % 2 = 1 THEN "1" ELSE "0"

C7_Neighbours(rec) == {rec[j][1] : j \in {i \in 2..5 : Present(rec[i])}}

\* C7: for a readout string r of num_data bits, a previous syndrome string p of
\* 2*num_syn bits and a type, the extraction returns (logical, s) with s of
\* 2*num_syn bits.  For "X" the Z half of s is the Z half of p, bit k of the X
\* half is the mod-2 sum of r over the present neighbours of X-type plaquette
\* k, and logical is the mod-2 sum of r over the left-most column; for "Z" the
\* X half of s is the X half of p, bit k of the Z half is the sum over Z-type
\* plaquette k and logical is the sum over the top-most row.  logical is a
\* function of r alone.  For d = 3, r all ones, p all zeros and type "X",
\* logical is 1 and s is all zeros.
C7_FinalStabilizer ==
    op = "extract_final_stabilizer_and_logical_readout" =>
        LET n      == params.num_syn
            r      == arg.final_readout_string
            q      == arg.previous_syndrome_string
            isX    == arg.readout_type = <<"X">>
            column == {k * params.d : k \in 0..(params.d - 1)}
            row    == 0..(params.d - 1)
        IN  /\ raised = "none"
            /\ Len(ret.stabilizer_str) = 2 * n
            /\ \A k \in 0..(n - 1) :
                   /\ ret.stabilizer_str[n - k] =
                          (IF isX THEN C7_Parity(r, C7_Neighbours(geometry.mx[k + 1]))
                                  ELSE q[n - k])
                   /\ ret.stabilizer_str[2 * n - k] =
                          (IF isX THEN q[2 * n - k]
                                  ELSE C7_Parity(r, C7_Neighbours(geometry.mz[k + 1])))
            /\ ret.logical_readout =
                   (IF C7_Parity(r, IF isX THEN column ELSE row) = "1" THEN 1 ELSE 0)
            /\ (params.d = 3 /\ r = ones(9) /\ q = zeros(8) /\ isX)
                   => ret = [logical_readout |-> 1, stabilizer_str |-> zeros(8)]

\* a distance-5 X readout with a single 1 on position 6, which is a neighbour
\* of X-type plaquettes 2 and 4, over a previous string that is not all equal
C7_Witness ==
    /\ op = "extract_final_stabilizer_and_logical_readout"
    /\ params.d = 5
    /\ arg.readout_type = <<"X">>
    /\ arg.final_readout_string = one_hot(25, 25 - 6)
    /\ arg.previous_syndrome_string = one_hot(24, 24)
    /\ ret.logical_readout = 0
    /\ ret.stabilizer_str =
           [i \in 1..12 |-> IF i \in {12 - 2, 12 - 4} THEN "1" ELSE "0"]
           \o one_hot(12, 12)

\* ------------------------------------------------------------------ transcripts, as claimed

Tokens == split(arg.readout_string)

IsBits(s) == \A i \in 1..Len(s) : s[i] \in {"0", "1"}

\* a transcript in the wire format for this lattice
WellFormed ==
    LET t == Tokens
    IN  /\ \A k \in 2..Len(t) : Len(t[k]) = 2 * params.num_syn /\ IsBits(t[k])
        /\ IsBits(t[1])
        /\ \/ Len(t[1]) = 1
           \/ /\ Len(t[1]) = params.num_data
              /\ arg.readout_type \in {<<"X">>, <<"Z">>}
              /\ Len(t) >= 2

\* its round strings R_0 .. R_(N-1), oldest first; for a full-lattice record the
\* extracted final-stabilizer string is the most recent one
Chronological ==
    LET t == Tokens
    IN  reversed(IF Len(t[1]) = 1
                 THEN Tail(t)
                 ELSE <<extract_final_stabilizer_and_logical_readout(
                            geometry, params, t[1], t[2],
                            arg.readout_type).value.stabilizer_str>>
                      \o Tail(t))

\* bit loc of the X (high) half and of the Z (low) half of a round string
XBit(R, loc) == R[params.num_syn - loc]

ZBit(R, loc) == R[2 * params.num_syn - loc]

\* (T, -0.5+loc, 0.5+(loc mod 2)) and
\* (T, 0.5+(loc div 2), 0.5+(loc mod 2)*2-(loc div 2)), rows and columns doubled
XCoordinate(t, loc) == <<t, 2 * loc - 1, 1 + 2 * (loc % 2)>>

ZCoordinate(t, loc) == <<t, 1 + 2 * (loc \div 2), 1 + 4 * (loc % 2) - 2 * (loc \div 2)>>

Elements(list) == {list[i] : i \in 1..Len(list)}

\* C8: with R_0..R_(N-1) the rounds of the transcript oldest first, the X-type
\* list holds (T, -0.5+loc, 0.5+(loc mod 2)) exactly when bit loc of the X half
\* differs between R_T and R_(T+1), the Z-type list holds
\* (T, 0.5+(loc div 2), 0.5+(loc mod 2)*2-(loc div 2)) exactly when bit loc of
\* the Z half differs, for T in 0..N-2 and loc in 0..num_syn-1; the lists hold
\* nothing else; a single-bit first token is returned as logical_readout.
C8_DefectsWhereRoundsDiffer ==
    (op = "parse_readout" /\ WellFormed) =>
        LET R    == Chronological
            N    == Len(R)
            locs == 0..(params.num_syn - 1)
            XDiff(t, loc) == XBit(R[t + 1], loc) # XBit(R[t + 2], loc)
            ZDiff(t, loc) == ZBit(R[t + 1], loc) # ZBit(R[t + 2], loc)
        IN  /\ raised = "none"
            /\ \A t \in 0..(N - 2), loc \in locs :
                   /\ XCoordinate(t, loc) \in Elements(ret.X) <=> XDiff(t, loc)
                   /\ ZCoordinate(t, loc) \in Elements(ret.Z) <=> ZDiff(t, loc)
            /\ \A c \in Elements(ret.X) :
                   \E t \in 0..(N - 2), loc \in locs :
                       c = XCoordinate(t, loc) /\ XDiff(t, loc)
            /\ \A c \in Elements(ret.Z) :
                   \E t \in 0..(N - 2), loc \in locs :
                       c = ZCoordinate(t, loc) /\ ZDiff(t, loc)
            /\ Len(Head(Tokens)) = 1 =>
                   ret.logical_readout = (IF Head(Tokens) = <<"1">> THEN 1 ELSE 0)

\* three rounds of a distance-5 lattice, the oldest with its X bit 11 set and
\* the two later ones all zeros: one X defect at T = 0, none at T = 1
C8_Witness ==
    /\ op = "parse_readout"
    /\ WellFormed
    /\ params.d = 5
    /\ Tokens = <<<<"1">>, zeros(24), zeros(24), one_hot(24, 1)>>
    /\ ret = [logical_readout |-> 1, X |-> <<XCoordinate(0, 11)>>, Z |-> <<>>]

\* C9: a transition between two identical round strings yields no defect of
\* either family; a transcript of N >= 1 all-zero rounds with logical bit 0
\* decodes to logical_readout 0 and two empty defect lists.
C9_IdenticalRoundsNoDefect ==
    (op = "parse_readout" /\ WellFormed) =>
        LET R == Chronological
        IN  /\ \A t \in 0..(Len(R) - 2) :
                   R[t + 1] = R[t + 2] =>
                       /\ \A c \in Elements(ret.X) : c[1] # t
                       /\ \A c \in Elements(ret.Z) : c[1] # t
            /\ (LET t == Tokens
                IN  /\ t[1] = <<"0">>
                    /\ Len(t) >= 2
                    /\ \A k \in 2..Len(t) : t[k] = zeros(2 * params.num_syn))
               => ret = [logical_readout |-> 0, X |-> <<>>, Z |-> <<>>]

\* three rounds, the two oldest identical and not all zeros, the latest
\* different: defects at T = 1 only
C9_Witness ==
    /\ op = "parse_readout"
    /\ WellFormed
    /\ Len(Tokens) = 4
    /\ Tokens[4] = ones(2 * params.num_syn)
    /\ Tokens[3] = ones(2 * params.num_syn)
    /\ Tokens[2] # Tokens[3]
    /\ Len(ret.X) + Len(ret.Z) > 0

\* the three ways in which the claim calls a transcript malformed
Malformed ==
    LET t == Tokens
    IN  \/ \E k \in 2..Len(t) : Len(t[k]) # 2 * params.num_syn
        \/ Len(t[1]) > 1 /\ Len(t[1]) # params.num_data
        \/ \E k \in 1..Len(t) : ~IsBits(t[k])
        \/ Len(t[1]) > 1 /\ arg.readout_type = None

\* C10: parse_readout ends with an error, returns nothing and leaves the
\* lattice as constructed for every transcript with a round token whose length
\* is not 2*num_syn (or a full-lattice first token whose length is not
\* num_data), with a character other than 0 and 1 in a token, or with a first
\* token longer than one character and no readout-type selector.
C10_MalformedRejected ==
    (op = "parse_readout" /\ Malformed) =>
        /\ raised # "none"
        /\ ret = None
        /\ params = init_params(params.d)
        /\ geometry = _geometry(init_params(params.d))

\* C12: within one family two distinct pairs (T, loc) never get the same
\* coordinate triple: the decoder emits one triple per pair whose bit differs,
\* and the triples of one list are as many as those pairs.
C12_CoordinatesInjective ==
    (op = "parse_readout" /\ WellFormed) =>
        LET R    == Chronological
            locs == 0..(params.num_syn - 1)
            XPairs == {pair \in (0..(Len(R) - 2)) \X locs :
                          XBit(R[pair[1] + 1], pair[2]) # XBit(R[pair[1] + 2], pair[2])}
            ZPairs == {pair \in (0..(Len(R) - 2)) \X locs :
                          ZBit(R[pair[1] + 1], pair[2]) # ZBit(R[pair[1] + 2], pair[2])}
        IN  /\ Len(ret.X) = Cardinality(XPairs)
            /\ Len(ret.Z) = Cardinality(ZPairs)
            /\ Cardinality(Elements(ret.X)) = Cardinality(XPairs)
            /\ Cardinality(Elements(ret.Z)) = Cardinality(ZPairs)

\* a distance-5 transcript whose three rounds flip every bit twice: every pair
\* (T, loc) of both families is emitted
C12_Witness ==
    /\ op = "parse_readout"
    /\ params.d = 5
    /\ Tokens = <<<<"0">>, zeros(24), ones(24), zeros(24)>>
    /\ Cardinality(Elements(ret.X)) = 24
    /\ Cardinality(Elements(ret.Z)) = 24

\* The triple c = <<T, 2 * row, 2 * col>> lies where the geometry puts the
\* plaquette of record rec: with data index i at grid position
\* (i div d, i mod d), top_left is at (row - 0.5, col - 0.5), top_right at
\* (row - 0.5, col + 0.5), bottom_left at (row + 0.5, col - 0.5) and
\* bottom_right at (row + 0.5, col + 0.5).
C13_At(c, rec) ==
    \A j \in 2..5 :
        Present(rec[j]) =>
            /\ 2 * (rec[j][1] \div params.d) = c[2] + (IF j \in {2, 3} THEN -1 ELSE 1)
            /\ 2 * (rec[j][1] % params.d) = c[3] + (IF j \in {2, 4} THEN -1 ELSE 1)

\* C13: the (row, col) reported for a defect of plaquette loc is the position
\* of that plaquette in the lattice built by _geometry(), for every distance:
\* whenever bit loc of a family differs between two consecutive rounds, the
\* list of that family holds, for that transition, a triple that lies where
\* the geometry puts plaquette loc.
C13_CoordinatesMatchGeometry ==
    (op = "parse_readout" /\ WellFormed) =>
        LET R    == Chronological
            locs == 0..(params.num_syn - 1)
        IN  \A t \in 0..(Len(R) - 2), loc \in locs :
                /\ XBit(R[t + 1], loc) # XBit(R[t + 2], loc) =>
                       \E c \in Elements(ret.X) :
                           c[1] = t /\ C13_At(c, geometry.mx[loc + 1])
                /\ ZBit(R[t + 1], loc) # ZBit(R[t + 2], loc) =>
                       \E c \in Elements(ret.Z) :
                           c[1] = t /\ C13_At(c, geometry.mz[loc + 1])

\* C11: two lattices with distinct name prefixes on one circuit never ask
\* for a register under a name that is already on the circuit, whatever the
\* prefixes are: no allocation is refused, and the registers on the circuit,
\* those of one lattice included, have pairwise distinct names.
C11_DistinctPrefixesNoCollision ==
    (arg[1].name # arg[2].name) =>
        /\ raised # "CircuitError"
        /\ \A i, j \in {m \in 1..Len(circ) : circ[m][1] = "add_register"} :
               i # j => circ[i][2] # circ[j][2]

====
